---- MODULE Spec2Model ----
(***************************************************************************)
(* The SCAD ticket monitor: the polling cycle of TicketMonitor (monitor.py) *)
(* with its state store, and the schedule-conflict detector, the page and   *)
(* the events cache of the web interface (web_interface.py), fed by the     *)
(* scraper (scraper_utils.py).                                             *)
(*                                                                         *)
(* Time is counted in whole days for the monitor (the dates the scraper    *)
(* parses carry no time of day) and in seconds for the conflict detector.  *)
(* Strings that are searched for substrings are sequences of characters.   *)
(***************************************************************************)
EXTENDS Integers, Sequences, FiniteSets, TLC

\* ------------------------------------------------------------------------
\* Bounds of the model
\* ------------------------------------------------------------------------
\* the clock of the monitor runs over the days 0..MaxNow
MaxNow == 2

\* the conflict detector measures time in ticks, TicksPerMinute to a minute
TicksPerMinute == 2

\* each of the two selection lists holds at most MaxSelected ids
MaxSelected == 2

\* at most MaxInFlight requests of the page are unanswered at a time
MaxInFlight == 2

\* ------------------------------------------------------------------------
\* Program constants
\* ------------------------------------------------------------------------
PASSED_EVENT_BUFFER_DAYS == 1
EVENT_DURATION_MINUTES == 150
CHECK_INTERVAL_DEFAULT == 45
JITTER_MINUTES == 5
RETRY_SECONDS == 300

\* Python's None as a status, None as a date, and a dict key that is absent
None == "None"
NoDate == -1
NoEntry == [absent |-> TRUE]

\* ------------------------------------------------------------------------
\* Strings: str.lower() and the `in` substring test
\* ------------------------------------------------------------------------
LowerChar(c) == IF c = "F" THEN "f" ELSE c

Lower(s) == [i \in 1..Len(s) |-> LowerChar(s[i])]

\* needle in hay
Contains(needle, hay) ==
    \E i \in 0..(Len(hay) - Len(needle)) :
        SubSeq(hay, i + 1, i + Len(needle)) = needle

\* ------------------------------------------------------------------------
\* The screenings the festival page can list, in page order
\* ------------------------------------------------------------------------
ID_A == <<"1", "/", "2">>
ID_B == <<"1", "/", "2", "3">>

PageOrder == <<ID_A, ID_B>>

EventIds == {PageOrder[i] : i \in 1..Len(PageOrder)}

TitleOf(id) == IF id = ID_A THEN <<"F", "o">> ELSE <<"G", "o">>

\* a word of the title of the first screening
KEYWORD == <<"F">>

\* the entries a user can have in monitored_events: ids and title keywords
MonitoredKeys == {ID_A, KEYWORD}

Statuses == {"available", "sold_out", "unknown"}

\* event['date']: None when the date text could not be parsed, or the day the festival opens (day 0 of the clock)
EventDates == {NoDate, 0}

\* the lists parse_festival_page can return: any sub-list of the page, each
\* id at most once
RECURSIVE PageLists(_)
PageLists(i) ==
    IF i > Len(PageOrder) THEN {<<>>}
    ELSE LET rest == PageLists(i + 1) IN
         rest \cup
         { <<[id |-> PageOrder[i], status |-> s, date |-> d]>> \o r :
               s \in Statuses, d \in EventDates, r \in rest }

\* the non-empty lists over the whole page, and over its first entry only
NonEmptyPageLists == PageLists(1) \ {<<>>}

FirstEntryPageLists == {l \in NonEmptyPageLists : Len(l) = 1 /\ l[1].id = PageOrder[1]}

\* ------------------------------------------------------------------------
\* date helpers
\* ------------------------------------------------------------------------
\* is_event_passed(event_date): strictly before now minus the buffer
is_event_passed_inclusive(event_date, t) ==
    IF event_date = NoDate THEN FALSE
    ELSE event_date <= t - PASSED_EVENT_BUFFER_DAYS

is_event_passed(event_date, t) ==
    IF event_date = NoDate THEN FALSE
    ELSE event_date < t - PASSED_EVENT_BUFFER_DAYS

\* ------------------------------------------------------------------------
\* TicketMonitor
\* ------------------------------------------------------------------------
\* monitored_lower in event_id.lower() or monitored_lower in title, for every
\* entry and screening of the model
KeyMatches ==
    [m \in MonitoredKeys |->
        [id \in EventIds |->
            \/ Contains(Lower(m), Lower(id))
            \/ Contains(Lower(m), Lower(TitleOf(id)))]]

\* the filter accepting the whole page once the list has an entry
should_monitor_event_any_entry(event, monitored) ==
    monitored # {}

\* should_monitor_event: some monitored entry is a substring of the id or of
\* the lower-cased title
should_monitor_event(event, monitored) ==
    \E m \in monitored : KeyMatches[m][event.id]

\* what can happen to the Pushover request: credentials missing, a 200
\* response, another response, or requests.post raising (timeout included)
AllPushoverOutcomes == {"not_configured", "ok", "rejected", "exception"}

\* what can happen to the mail: credentials missing, sent, or SMTP raising
AllEmailOutcomes == {"not_configured", "ok", "exception"}

\* the outcomes drawn in the cycles of the monitor
PushoverOutcomes == {"ok", "rejected"}
EmailOutcomes == {"not_configured"}

\* send_pushover_notification: True only on a 200 response; every other
\* outcome, an exception included, returns False
send_pushover_notification(po) == po = "ok"

\* send_email_notification: True only when the message was handed to SMTP
send_email_notification(em) == em = "ok"

\* notify letting an exception of the Pushover request escape: the mail is
\* not attempted
notify_pushover_raises(event, is_new, po, em) ==
    IF po = "exception"
    THEN [id |-> event.id, is_new |-> is_new, pushover |-> po,
          email |-> "not_called", raised |-> TRUE, result |-> FALSE]
    ELSE [id |-> event.id, is_new |-> is_new, pushover |-> po, email |-> em,
          raised |-> FALSE,
          result |-> send_pushover_notification(po)
                        \/ send_email_notification(em)]

\* notify(event, is_new): both backends are called, one after the other;
\* the record of the call holds what happened to each and the value returned
notify(event, is_new, po, em) ==
    [id |-> event.id,
     is_new |-> is_new,
     pushover |-> po,
     email |-> em,
     raised |-> FALSE,
     result |-> send_pushover_notification(po) \/ send_email_notification(em)]

PassedEntry == [status |-> "passed", marked_passed |-> TRUE]

EntryOf(event) ==
    [status |-> event.status, title |-> TitleOf(event.id),
     marked_passed |-> FALSE]

\* previous_states.get(event_id, {}).get('status')
previous_status_of(states, event_id) ==
    IF states[event_id] = NoEntry THEN None ELSE states[event_id].status

is_newly_available_no_unknown(previous_status) ==
    previous_status \in {"sold_out", None}

is_newly_available_always(previous_status) ==
    previous_status \in {"sold_out", "unknown", None, "available"}

is_newly_available_after_passed(previous_status) ==
    previous_status \in {"sold_out", "unknown", None, "passed"}

\* previous_status in ['sold_out', 'unknown', None]
is_newly_available(previous_status) ==
    previous_status \in {"sold_out", "unknown", None}

\* the notifications one non-passed event causes
notifications_for_any_status(event, previous_status, naa, po, em) ==
    IF is_newly_available(previous_status)
    THEN <<notify(event, TRUE, po, em)>>
    ELSE IF naa THEN <<notify(event, FALSE, po, em)>> ELSE <<>>

notifications_for_no_repeat(event, previous_status, naa, po, em) ==
    IF event.status = "available" /\ is_newly_available(previous_status)
    THEN <<notify(event, TRUE, po, em)>>
    ELSE <<>>

notifications_for(event, previous_status, naa, po, em) ==
    IF event.status = "available"
    THEN IF is_newly_available(previous_status)
         THEN <<notify(event, TRUE, po, em)>>
         ELSE IF naa THEN <<notify(event, FALSE, po, em)>> ELSE <<>>
    ELSE <<>>

Configs ==
    [monitored_events : SUBSET MonitoredKeys, notify_all_available : BOOLEAN]

NoStats ==
    [active_count |-> 0, passed_count |-> 0,
     available_count |-> 0, sold_out_count |-> 0]

\* the counters of the loop: passed_count for a passed event, else
\* active_count and the counter of the current status
count_event(st, event, passed) ==
    IF passed THEN [st EXCEPT !.passed_count = @ + 1]
    ELSE [st EXCEPT
            !.active_count = @ + 1,
            !.available_count =
                IF event.status = "available" THEN @ + 1 ELSE @,
            !.sold_out_count =
                IF event.status = "sold_out" THEN @ + 1 ELSE @]

\* the body of the loop over monitored_found for one event; acc carries
\* previous_states, the notifications sent so far and the counters
process_event_no_gate(acc, event, t, naa, po, em) ==
    [states |-> [acc.states EXCEPT ![event.id] = EntryOf(event)],
     sent |-> acc.sent \o
              notifications_for(event, previous_status_of(acc.states, event.id),
                                naa, po, em),
     stats |-> count_event(acc.stats, event, FALSE)]

process_event_update_only_on_delivery(acc, event, t, naa, po, em) ==
    IF event.date # NoDate /\ is_event_passed(event.date, t)
    THEN [states |-> IF \/ acc.states[event.id] = NoEntry
                        \/ ~acc.states[event.id].marked_passed
                     THEN [acc.states EXCEPT ![event.id] = PassedEntry]
                     ELSE acc.states,
          sent |-> acc.sent,
          stats |-> count_event(acc.stats, event, TRUE)]
    ELSE LET n == notifications_for(event,
                      previous_status_of(acc.states, event.id), naa, po, em)
         IN [states |-> IF n # <<>> /\ ~n[1].result THEN acc.states
                        ELSE [acc.states EXCEPT ![event.id] = EntryOf(event)],
             sent |-> acc.sent \o n,
             stats |-> count_event(acc.stats, event, FALSE)]

\* the passed branch deleting the entry instead of marking it
process_event_deletes_passed(acc, event, t, naa, po, em) ==
    IF event.date # NoDate /\ is_event_passed(event.date, t)
    THEN [states |-> [acc.states EXCEPT ![event.id] = NoEntry],
          sent |-> acc.sent,
          stats |-> count_event(acc.stats, event, TRUE)]
    ELSE [states |-> [acc.states EXCEPT ![event.id] = EntryOf(event)],
          sent |-> acc.sent \o
                   notifications_for(event,
                       previous_status_of(acc.states, event.id), naa, po, em),
          stats |-> count_event(acc.stats, event, FALSE)]

process_event(acc, event, t, naa, po, em) ==
    IF event.date # NoDate /\ is_event_passed(event.date, t)
    THEN [states |-> IF \/ acc.states[event.id] = NoEntry
                        \/ ~acc.states[event.id].marked_passed
                     THEN [acc.states EXCEPT ![event.id] = PassedEntry]
                     ELSE acc.states,
          sent |-> acc.sent,
          stats |-> count_event(acc.stats, event, TRUE)]
    ELSE [states |-> [acc.states EXCEPT ![event.id] = EntryOf(event)],
          sent |-> acc.sent \o
                   notifications_for(event,
                       previous_status_of(acc.states, event.id), naa, po, em),
          stats |-> count_event(acc.stats, event, FALSE)]

\* for event in monitored_found: ...
RECURSIVE process_events(_, _, _, _, _, _)
process_events(acc, events, t, naa, po, em) ==
    IF events = <<>> THEN acc
    ELSE process_events(process_event(acc, Head(events), t, naa, po, em),
                        Tail(events), t, naa, po, em)

\* [e for e in all_events if self.should_monitor_event(e)]
monitored_found_of(events, monitored) ==
    SelectSeq(events, LAMBDA e : should_monitor_event(e, monitored))

\* the state file: NoFile, Truncated (a write that did not finish), or the
\* 'states' mapping that was dumped
NoFile == [kind |-> "missing"]
Truncated == [kind |-> "truncated"]
JsonFile(states) == [kind |-> "json", states |-> states]

SaveOutcomes == {"ok", "open_error", "write_error"}

\* save_state: open(state_file, 'w') then json.dump; any exception is caught
save_state_keep_on_write_error(file, states, outcome) ==
    IF outcome = "ok" THEN JsonFile(states) ELSE file

save_state(file, states, outcome) ==
    IF outcome = "ok" THEN JsonFile(states)
    ELSE IF outcome = "open_error" THEN file
    ELSE Truncated

EmptyStates == [id \in EventIds |-> NoEntry]

\* load_state: the mapping of the file, {} when there is no file or it
\* cannot be parsed
load_state_forget(file) == EmptyStates

load_state(file) ==
    IF file.kind = "json" THEN file.states ELSE EmptyStates

\* monitor(): nothing is done when parse_festival_page returned no record;
\* otherwise the loop runs over the monitored records and save_state is
\* called once, after the loop
monitor_no_early_return(states, file, events, cfg, t, po, em, save) ==
    LET acc == process_events(
                   [states |-> states, sent |-> <<>>, stats |-> NoStats],
                   monitored_found_of(events, cfg.monitored_events),
                   t, cfg.notify_all_available, po, em)
    IN [states |-> acc.states,
        file |-> save_state(file, acc.states, save),
        sent |-> acc.sent, stats |-> acc.stats, writes |-> 1]

\* monitor() calling save_state inside the loop, once per monitored record
monitor_saves_in_loop(states, file, events, cfg, t, po, em, save) ==
    IF events = <<>>
    THEN [states |-> states, file |-> file, sent |-> <<>>,
          stats |-> NoStats, writes |-> 0]
    ELSE LET found == monitored_found_of(events, cfg.monitored_events)
             acc == process_events(
                        [states |-> states, sent |-> <<>>, stats |-> NoStats],
                        found, t, cfg.notify_all_available, po, em)
         IN [states |-> acc.states,
             file |-> IF found = <<>> THEN file
                      ELSE save_state(file, acc.states, save),
             sent |-> acc.sent, stats |-> acc.stats, writes |-> Len(found)]

\* monitor() keeping only the entries of the screenings of this poll: the
\* status compared is the stored one, the mapping written is built anew
monitor_rebuilds_mapping(states, file, events, cfg, t, po, em, save) ==
    IF events = <<>>
    THEN [states |-> states, file |-> file, sent |-> <<>>,
          stats |-> NoStats, writes |-> 0]
    ELSE LET found == monitored_found_of(events, cfg.monitored_events)
             acc == process_events(
                        [states |-> states, sent |-> <<>>, stats |-> NoStats],
                        found, t, cfg.notify_all_available, po, em)
             kept == [id \in EventIds |->
                         IF \E i \in DOMAIN found : found[i].id = id
                         THEN acc.states[id] ELSE NoEntry]
         IN [states |-> kept,
             file |-> save_state(file, kept, save),
             sent |-> acc.sent, stats |-> acc.stats, writes |-> 1]

\* monitor() reading the state file again before it compares
monitor_reloads_state(states, file, events, cfg, t, po, em, save) ==
    IF events = <<>>
    THEN [states |-> states, file |-> file, sent |-> <<>>,
          stats |-> NoStats, writes |-> 0]
    ELSE LET acc == process_events(
                        [states |-> load_state(file), sent |-> <<>>,
                         stats |-> NoStats],
                        monitored_found_of(events, cfg.monitored_events),
                        t, cfg.notify_all_available, po, em)
         IN [states |-> acc.states,
             file |-> save_state(file, acc.states, save),
             sent |-> acc.sent, stats |-> acc.stats, writes |-> 1]

monitor(states, file, events, cfg, t, po, em, save) ==
    IF events = <<>>
    THEN [states |-> states, file |-> file, sent |-> <<>>,
          stats |-> NoStats, writes |-> 0]
    ELSE LET acc == process_events(
                        [states |-> states, sent |-> <<>>, stats |-> NoStats],
                        monitored_found_of(events, cfg.monitored_events),
                        t, cfg.notify_all_available, po, em)
         IN [states |-> acc.states,
             file |-> save_state(file, acc.states, save),
             sent |-> acc.sent, stats |-> acc.stats, writes |-> 1]

\* ------------------------------------------------------------------------
\* Schedule conflicts (web_interface.py)
\* ------------------------------------------------------------------------
ConflictIds == {"a", "b", "c"}

\* an id without a record in the events list
NoRecord == [absent |-> TRUE]

\* event['date'] of a cached record: None, a string datetime.fromisoformat
\* rejects, or an ISO string, given by the tick it denotes
BadDate == -2

StartTicks ==
    {0, 1, EVENT_DURATION_MINUTES * TicksPerMinute - 1,
     EVENT_DURATION_MINUTES * TicksPerMinute}

CachedDates == {NoDate, BadDate} \cup StartTicks

\* event_map = {e['id']: e for e in events}
EventMaps == [ConflictIds -> {NoRecord} \cup [date : CachedDates]]

RECURSIVE SeqsUpTo(_, _)
SeqsUpTo(S, n) ==
    IF n = 0 THEN {<<>>}
    ELSE LET shorter == SeqsUpTo(S, n - 1) IN
         shorter \cup {<<x>> \o q : x \in S, q \in {r \in shorter : Len(r) = n - 1}}

SelectionLists == SeqsUpTo(ConflictIds, MaxSelected)

Range(q) == {q[i] : i \in DOMAIN q}

AbsDiff(x, y) == IF x >= y THEN x - y ELSE y - x

severity_of_either_critical(id1, id2, purchased_ids) ==
    IF id1 \in Range(purchased_ids) \/ id2 \in Range(purchased_ids)
    THEN "critical"
    ELSE "info"

\* severity of a conflict: both purchased, one purchased, none
severity_of(id1, id2, purchased_ids) ==
    IF id1 \in Range(purchased_ids) /\ id2 \in Range(purchased_ids)
    THEN "critical"
    ELSE IF id1 \in Range(purchased_ids) \/ id2 \in Range(purchased_ids)
    THEN "warning"
    ELSE "info"

\* the body of the inner loop of check_conflicts for the pair id1, id2: the
\* conflicts it appends
pair_conflicts_no_abs(event_map, id1, id2, purchased_ids) ==
    LET event1 == event_map[id1]
        event2 == event_map[id2]
    IN IF event1 = NoRecord \/ event2 = NoRecord THEN <<>>
       ELSE IF event1.date = NoDate \/ event2.date = NoDate THEN <<>>
       ELSE IF event1.date = BadDate \/ event2.date = BadDate THEN <<>>
       ELSE LET time_diff == event1.date - event2.date IN
            IF time_diff < EVENT_DURATION_MINUTES * TicksPerMinute
            THEN <<[event1 |-> id1, event2 |-> id2,
                    severity |-> severity_of(id1, id2, purchased_ids),
                    time_diff_minutes |-> AbsDiff(time_diff, 0) \div TicksPerMinute]>>
            ELSE <<>>

pair_conflicts(event_map, id1, id2, purchased_ids) ==
    LET event1 == event_map[id1]
        event2 == event_map[id2]
    IN IF event1 = NoRecord \/ event2 = NoRecord THEN <<>>
       ELSE IF event1.date = NoDate \/ event2.date = NoDate THEN <<>>
       ELSE IF event1.date = BadDate \/ event2.date = BadDate THEN <<>>
       ELSE LET time_diff == AbsDiff(event1.date, event2.date) IN
            IF time_diff < EVENT_DURATION_MINUTES * TicksPerMinute
            THEN <<[event1 |-> id1, event2 |-> id2,
                    severity |-> severity_of(id1, id2, purchased_ids),
                    time_diff_minutes |-> time_diff \div TicksPerMinute]>>
            ELSE <<>>

\* the loop leaving at the first pair it cannot evaluate
RECURSIVE conflicts_from_stop_at_skip(_, _, _, _, _, _)
conflicts_from_stop_at_skip(event_map, all_selected, purchased_ids, i, j, acc) ==
    IF i > Len(all_selected) THEN acc
    ELSE IF j > Len(all_selected)
    THEN conflicts_from_stop_at_skip(event_map, all_selected, purchased_ids,
                                     i + 1, i + 2, acc)
    ELSE IF \/ event_map[all_selected[i]] = NoRecord
            \/ event_map[all_selected[j]] = NoRecord
            \/ event_map[all_selected[i]].date \in {NoDate, BadDate}
            \/ event_map[all_selected[j]].date \in {NoDate, BadDate}
    THEN acc
    ELSE conflicts_from_stop_at_skip(
             event_map, all_selected, purchased_ids, i, j + 1,
             acc \o pair_conflicts(event_map, all_selected[i],
                                   all_selected[j], purchased_ids))

\* for i, id1 in enumerate(all_selected): for id2 in all_selected[i + 1:]
RECURSIVE conflicts_from(_, _, _, _, _, _)
conflicts_from(event_map, all_selected, purchased_ids, i, j, acc) ==
    IF i > Len(all_selected) THEN acc
    ELSE IF j > Len(all_selected)
    THEN conflicts_from(event_map, all_selected, purchased_ids,
                        i + 1, i + 2, acc)
    ELSE conflicts_from(event_map, all_selected, purchased_ids, i, j + 1,
                        acc \o pair_conflicts(event_map, all_selected[i],
                                              all_selected[j], purchased_ids))

\* check_conflicts(events, monitored_ids, purchased_ids)
check_conflicts(event_map, m_ids, p_ids) ==
    conflicts_from(event_map, m_ids \o p_ids, p_ids, 1, 2, <<>>)

VARIABLES
    previous_states,    \* self.previous_states
    state_file,         \* the contents of state.json
    config,             \* monitor_config.json in the gist, as load_config reads it
    now,                \* the clock, read by datetime.now()
    all_events,         \* the records parse_festival_page returned to the last cycle
    sent,               \* the notify calls of the last cycle, in order
    stats,              \* the counters of the last cycle's summary line
    writes,             \* the number of save_state calls of the last cycle
    cycle,              \* "init" after __init__, then how the last cycle ended
    parity,             \* number of cycles run so far, modulo 2
    event_map,          \* check_conflicts: the cached events, by id
    monitored_ids,      \* check_conflicts: config['monitored_events']
    purchased_ids,      \* check_conflicts: config['purchased_events']
    conflicts,          \* the conflicts list of the last /api/conflicts response
    answered,           \* whether /api/conflicts has been answered
    interval_config,    \* check_interval_minutes in the gist configuration
    check_interval_minutes, \* self.check_interval_minutes
    wait,               \* the sleep run() went into after the last cycle
    running,            \* run() is in its loop
    ui_monitored,       \* the page's config.monitored_events
    ui_purchased,       \* the page's config.purchased_events
    save_requests,      \* the POST /api/save-config requests not yet handled
    conflict_requests,  \* the GET /api/conflicts requests not yet answered
    events_cache,       \* the contents of events_cache.json
    hour,               \* the clock of the web interface, in hours
    request,            \* the request the web interface handled last
    scraped             \* whether that request called fetch_all_events

mvars == <<previous_states, state_file, config, now, all_events, sent, stats,
           writes, cycle, parity>>

cvars == <<event_map, monitored_ids, purchased_ids, conflicts, answered>>

rvars == <<interval_config, check_interval_minutes, wait, running>>

uvars == <<ui_monitored, ui_purchased, save_requests, conflict_requests>>

kvars == <<events_cache, hour, request, scraped>>

vars == <<mvars, cvars, rvars, uvars, kvars>>

\* run() has not slept yet
NoWait == [kind |-> "none", seconds |-> 0]

\* time.sleep(300) of the except branch
RetryWait == [kind |-> "retry", seconds |-> RETRY_SECONDS]

\* the values check_interval_minutes takes in the configuration: one below
\* the jitter and the default
Intervals == {3, CHECK_INTERVAL_DEFAULT}

\* random.uniform(base_interval - 5, base_interval + 5): both ends and the
\* middle
Jitters == {-JITTER_MINUTES, 0, JITTER_MINUTES}

\* run() is entered with the interval __init__ read from the configuration
InitLoop ==
    /\ interval_config = CHECK_INTERVAL_DEFAULT
    /\ check_interval_minutes = interval_config
    /\ wait = NoWait
    /\ running = TRUE

\* the page has not been opened
InitPage ==
    /\ ui_monitored = <<>>
    /\ ui_purchased = <<>>
    /\ save_requests = <<>>
    /\ conflict_requests = 0

\* no events cache yet and no request handled
InitCache ==
    /\ events_cache = NoFile
    /\ hour = 0
    /\ request = "none"
    /\ scraped = FALSE

\* the web interface has not been asked for conflicts
InitWeb ==
    /\ event_map = [id \in ConflictIds |-> NoRecord]
    /\ monitored_ids = <<>>
    /\ purchased_ids = <<>>
    /\ conflicts = <<>>
    /\ answered = FALSE

\* the process is started for the first time: no state file yet
Init ==
    /\ state_file = NoFile
    /\ previous_states = load_state(NoFile)
    /\ config \in Configs
    /\ now = 0
    /\ all_events = <<>>
    /\ sent = <<>>
    /\ stats = NoStats
    /\ writes = 0
    /\ cycle = "init"
    /\ parity = 0
    /\ InitWeb
    /\ InitLoop
    /\ InitPage
    /\ InitCache

\* the web interface saves another configuration to the gist
ConfigChanged ==
    /\ \E c \in Configs \ {config} : config' = c
    /\ UNCHANGED <<previous_states, state_file, now, all_events, sent, stats,
                   writes, cycle, parity>>
    /\ UNCHANGED <<cvars, rvars, uvars, kvars>>

\* a day goes by (the loop sleeps between cycles)
Tick ==
    /\ now < MaxNow
    /\ now' = now + 1
    /\ UNCHANGED <<previous_states, state_file, config, all_events, sent,
                   stats, writes, cycle, parity>>
    /\ UNCHANGED <<cvars, rvars, uvars, kvars>>

\* TicketMonitor.__init__ in a new process: the interval is read from the
\* configuration, previous_states = {}, load_state; then run() is entered
Restart ==
    /\ check_interval_minutes' = interval_config
    /\ previous_states' = load_state(state_file)
    /\ cycle' = "init"
    /\ all_events' = <<>>
    /\ sent' = <<>>
    /\ stats' = NoStats
    /\ writes' = 0
    /\ wait' = NoWait
    /\ running' = TRUE
    /\ UNCHANGED <<state_file, config, now, parity, interval_config>>
    /\ UNCHANGED <<cvars, uvars, kvars>>

\* one call of monitor() on the records events; fetched tells whether
\* fetch_page returned the page or None
MonitorCall(events, fetched, po, em, save) ==
    \E r \in {monitor(previous_states, state_file, events, config, now,
                     po, em, save)} :
       /\ all_events' = events
       /\ previous_states' = r.states
       /\ state_file' = r.file
       /\ sent' = r.sent
       /\ stats' = r.stats
       /\ writes' = r.writes
       /\ cycle' = IF ~fetched THEN "fetch_failed"
                   ELSE IF events = <<>> THEN "no_events" ELSE "done"
       /\ parity' = 1 - parity
       /\ UNCHANGED <<config, now>>

\* monitor() called by itself
MonitorOn(events, fetched, po, em, save) ==
    /\ MonitorCall(events, fetched, po, em, save)
    /\ UNCHANGED <<cvars, rvars, uvars, kvars>>

\* monitor() raising an Exception while it reloads the configuration (the
\* gist holds JSON that is not an object): nothing is fetched, compared or
\* written
MonitorRaisesCall ==
    /\ cycle' = "exception"
    /\ parity' = 1 - parity
    /\ all_events' = <<>>
    /\ sent' = <<>>
    /\ stats' = NoStats
    /\ writes' = 0
    /\ UNCHANGED <<previous_states, state_file, config, now>>

\* monitor() called by itself and raising
MonitorRaises ==
    /\ MonitorRaisesCall
    /\ UNCHANGED <<cvars, rvars, uvars, kvars>>

\* monitor() when parse_festival_page returns []: fetch_page failed (None)
\* or the page lists no screening
MonitorNoEvents ==
    \E fetched \in BOOLEAN, po \in PushoverOutcomes, em \in EmailOutcomes :
        MonitorOn(<<>>, fetched, po, em, "ok")

\* a cycle over any non-empty page, the state file written without error
MonitorCycle ==
    \E events \in NonEmptyPageLists,
       po \in PushoverOutcomes, em \in EmailOutcomes :
        MonitorOn(events, TRUE, po, em, "ok")

\* a cycle over a page of one screening, the write of the state file
\* succeeding or failing
MonitorCycleStore ==
    \E events \in FirstEntryPageLists,
       po \in AllPushoverOutcomes, em \in AllEmailOutcomes,
       save \in SaveOutcomes :
        MonitorOn(events, TRUE, po, em, save)

Next ==
    \/ ConfigChanged
    \/ Tick
    \/ Restart
    \/ MonitorNoEvents
    \/ MonitorCycle
    \/ MonitorRaises

Spec == Init /\ [][Next]_vars

NextStore ==
    \/ ConfigChanged
    \/ Tick
    \/ Restart
    \/ MonitorNoEvents
    \/ MonitorCycleStore

SpecStore == Init /\ [][NextStore]_vars

\* the monitor has just been started; the web interface holds some cached
\* events and some selection lists
InitConflicts ==
    /\ state_file = NoFile
    /\ previous_states = load_state(NoFile)
    /\ config = [monitored_events |-> {}, notify_all_available |-> FALSE]
    /\ now = 0
    /\ all_events = <<>>
    /\ sent = <<>>
    /\ stats = NoStats
    /\ writes = 0
    /\ cycle = "init"
    /\ parity = 0
    /\ event_map \in EventMaps
    /\ monitored_ids \in SelectionLists
    /\ purchased_ids \in SelectionLists
    /\ conflicts = <<>>
    /\ answered = FALSE
    /\ InitLoop
    /\ InitPage
    /\ InitCache

\* get_conflicts: the /api/conflicts handler answers with check_conflicts of
\* the cached events and the two lists of the configuration
GetConflicts ==
    /\ ~answered
    /\ conflicts' = check_conflicts(event_map, monitored_ids, purchased_ids)
    /\ answered' = TRUE
    /\ UNCHANGED <<event_map, monitored_ids, purchased_ids>>
    /\ UNCHANGED <<mvars, rvars, uvars, kvars>>

NextConflicts == GetConflicts

SpecConflicts == InitConflicts /\ [][NextConflicts]_vars

\* ------------------------------------------------------------------------
\* run(): the loop around monitor()
\* ------------------------------------------------------------------------
\* the pages of the cycles of the loop: nothing, or the first screening
LoopPages == {<<>>} \cup FirstEntryPageLists

\* time.sleep(wait_seconds): a negative length raises ValueError, which the
\* except branch answers with the retry sleep
sleep_after_cycle(base_interval, jitter) ==
    IF (base_interval + jitter) * 60 < 0
    THEN RetryWait
    ELSE [kind |-> "interval", seconds |-> (base_interval + jitter) * 60]

\* the loop taking the retry sleep when the page could not be fetched
RunCycle_retry_on_fetch_failure ==
    /\ running
    /\ \E events \in LoopPages, fetched \in BOOLEAN,
          po \in PushoverOutcomes, em \in EmailOutcomes, jitter \in Jitters :
          /\ events # <<>> => fetched
          /\ MonitorCall(events, fetched, po, em, "ok")
          /\ wait' = IF fetched
                     THEN sleep_after_cycle(check_interval_minutes, jitter)
                     ELSE RetryWait
    /\ UNCHANGED <<interval_config, check_interval_minutes, running>>
    /\ UNCHANGED <<cvars, uvars, kvars>>

\* one turn of the loop in which monitor() returns: the sleep is drawn
\* around self.check_interval_minutes, whatever monitor() found
RunCycle ==
    /\ running
    /\ \E events \in LoopPages, fetched \in BOOLEAN,
          po \in PushoverOutcomes, em \in EmailOutcomes, jitter \in Jitters :
          /\ events # <<>> => fetched
          /\ MonitorCall(events, fetched, po, em, "ok")
          /\ wait' = sleep_after_cycle(check_interval_minutes, jitter)
    /\ UNCHANGED <<interval_config, check_interval_minutes, running>>
    /\ UNCHANGED <<cvars, uvars, kvars>>

\* the loop without its except Exception branch: the exception ends run()
RunCycleRaises_leaves_loop ==
    /\ running
    /\ cycle' = "exception"
    /\ parity' = 1 - parity
    /\ all_events' = <<>>
    /\ sent' = <<>>
    /\ stats' = NoStats
    /\ writes' = 0
    /\ wait' = NoWait
    /\ running' = FALSE
    /\ UNCHANGED <<previous_states, state_file, config, now>>
    /\ UNCHANGED <<interval_config, check_interval_minutes>>
    /\ UNCHANGED <<cvars, uvars, kvars>>

\* one turn of the loop in which monitor() raises an Exception while it
\* reloads the configuration: nothing is fetched, the except branch sleeps
\* 300 seconds
RunCycleRaises ==
    /\ running
    /\ MonitorRaisesCall
    /\ wait' = RetryWait
    /\ UNCHANGED <<interval_config, check_interval_minutes, running>>
    /\ UNCHANGED <<cvars, uvars, kvars>>

\* KeyboardInterrupt while run() sleeps: the loop is left
RunInterrupted ==
    /\ running
    /\ wait.kind # "none"
    /\ running' = FALSE
    /\ wait' = [kind |-> "interrupted", seconds |-> 0]
    /\ UNCHANGED <<interval_config, check_interval_minutes>>
    /\ UNCHANGED <<mvars, cvars, uvars, kvars>>

\* the web interface saves a configuration with another check interval
IntervalChanged ==
    /\ \E i \in Intervals \ {interval_config} : interval_config' = i
    /\ UNCHANGED <<check_interval_minutes, wait, running>>
    /\ UNCHANGED <<mvars, cvars, uvars, kvars>>

\* the monitor is started with some check interval configured and the first
\* screening monitored
InitRun ==
    /\ state_file = NoFile
    /\ previous_states = load_state(NoFile)
    /\ config = [monitored_events |-> {ID_A}, notify_all_available |-> FALSE]
    /\ now = 0
    /\ all_events = <<>>
    /\ sent = <<>>
    /\ stats = NoStats
    /\ writes = 0
    /\ cycle = "init"
    /\ parity = 0
    /\ InitWeb
    /\ interval_config \in Intervals
    /\ check_interval_minutes = interval_config
    /\ wait = NoWait
    /\ running = TRUE
    /\ InitPage
    /\ InitCache

NextRun ==
    \/ RunCycle
    \/ RunCycleRaises
    \/ RunInterrupted
    \/ IntervalChanged
    \/ Restart

SpecRun == InitRun /\ [][NextRun]_vars

\* the loop is sequential and every sleep ends: a turn that can be taken is
\* taken
SpecRunFair == SpecRun /\ WF_vars(RunCycle \/ RunCycleRaises)

\* ------------------------------------------------------------------------
\* The page: toggleMonitor, togglePurchased and the requests they send
\* ------------------------------------------------------------------------
\* the screenings the page shows
PageIds == {"a", "b"}

\* Array.prototype.indexOf, counted from 1; 0 when x is not in list
IndexOf(list, x) ==
    IF x \in Range(list)
    THEN CHOOSE i \in DOMAIN list :
             list[i] = x /\ \A j \in 1..(i - 1) : list[j] # x
    ELSE 0

\* list.splice(i, 1)
Splice(list, i) == SubSeq(list, 1, i - 1) \o SubSeq(list, i + 1, Len(list))

\* toggleMonitor(eventId) on the page's config
toggleMonitor(monitored, purchased, eventId) ==
    IF IndexOf(monitored, eventId) > 0
    THEN [monitored_events |-> Splice(monitored, IndexOf(monitored, eventId)),
          purchased_events |-> purchased]
    ELSE IF eventId \notin Range(purchased)
    THEN [monitored_events |-> Append(monitored, eventId),
          purchased_events |-> purchased]
    ELSE [monitored_events |-> monitored, purchased_events |-> purchased]

\* togglePurchased leaving the monitored list as it is
togglePurchased_keeps_monitored(monitored, purchased, eventId) ==
    IF IndexOf(purchased, eventId) > 0
    THEN [monitored_events |-> monitored,
          purchased_events |-> Splice(purchased, IndexOf(purchased, eventId))]
    ELSE [monitored_events |-> monitored,
          purchased_events |-> Append(purchased, eventId)]

\* togglePurchased(eventId) on the page's config
togglePurchased(monitored, purchased, eventId) ==
    IF IndexOf(purchased, eventId) > 0
    THEN [monitored_events |-> monitored,
          purchased_events |-> Splice(purchased, IndexOf(purchased, eventId))]
    ELSE [monitored_events |->
              IF IndexOf(monitored, eventId) > 0
              THEN Splice(monitored, IndexOf(monitored, eventId))
              ELSE monitored,
          purchased_events |-> Append(purchased, eventId)]

\* the page takes the new config, then saveConfig() posts it and
\* loadConflicts() asks for the conflicts, neither request awaited
PageTakes(c) ==
    /\ Len(save_requests) < MaxInFlight
    /\ conflict_requests < MaxInFlight
    /\ ui_monitored' = c.monitored_events
    /\ ui_purchased' = c.purchased_events
    /\ save_requests' = Append(save_requests, c)
    /\ conflict_requests' = conflict_requests + 1
    /\ UNCHANGED <<mvars, cvars, rvars, kvars>>

\* the user clicks the monitor button of a screening
ToggleMonitor ==
    \E eventId \in PageIds :
        PageTakes(toggleMonitor(ui_monitored, ui_purchased, eventId))

\* the user clicks the purchased button of a screening
TogglePurchased ==
    \E eventId \in PageIds :
        PageTakes(togglePurchased(ui_monitored, ui_purchased, eventId))

\* save_config_api handles one of the pending requests, in any order; the
\* write to the gist succeeds or fails
SaveConfigApi ==
    \E k \in DOMAIN save_requests, success \in BOOLEAN :
        /\ monitored_ids' = IF success
                            THEN save_requests[k].monitored_events
                            ELSE monitored_ids
        /\ purchased_ids' = IF success
                            THEN save_requests[k].purchased_events
                            ELSE purchased_ids
        /\ save_requests' = Splice(save_requests, k)
        /\ UNCHANGED <<event_map, conflicts, answered>>
        /\ UNCHANGED <<ui_monitored, ui_purchased, conflict_requests>>
        /\ UNCHANGED <<mvars, rvars, kvars>>

\* get_conflicts answers one pending request from the stored configuration
\* and the page keeps the answer in allConflicts
ConflictsApi ==
    /\ conflict_requests > 0
    /\ conflict_requests' = conflict_requests - 1
    /\ conflicts' = check_conflicts(event_map, monitored_ids, purchased_ids)
    /\ answered' = TRUE
    /\ UNCHANGED <<event_map, monitored_ids, purchased_ids>>
    /\ UNCHANGED <<ui_monitored, ui_purchased, save_requests>>
    /\ UNCHANGED <<mvars, rvars, kvars>>

\* the lists the page can be loaded with: no id twice, no id in both
LoadedLists ==
    {l \in SeqsUpTo(PageIds, Cardinality(PageIds)) :
        \A i, j \in DOMAIN l : l[i] = l[j] => i = j}

\* the page is loaded with the stored configuration; every screening starts
\* at the same time
InitUI ==
    /\ state_file = NoFile
    /\ previous_states = load_state(NoFile)
    /\ config = [monitored_events |-> {}, notify_all_available |-> FALSE]
    /\ now = 0
    /\ all_events = <<>>
    /\ sent = <<>>
    /\ stats = NoStats
    /\ writes = 0
    /\ cycle = "init"
    /\ parity = 0
    /\ InitLoop
    /\ event_map = [id \in ConflictIds |->
                       IF id \in PageIds THEN [date |-> 0] ELSE NoRecord]
    /\ monitored_ids \in LoadedLists
    /\ purchased_ids \in LoadedLists
    /\ Range(monitored_ids) \cap Range(purchased_ids) = {}
    /\ conflicts = <<>>
    /\ answered = FALSE
    /\ ui_monitored = monitored_ids
    /\ ui_purchased = purchased_ids
    /\ save_requests = <<>>
    /\ conflict_requests = 0
    /\ InitCache

NextUI ==
    \/ ToggleMonitor
    \/ TogglePurchased
    \/ SaveConfigApi
    \/ ConflictsApi

SpecUI == InitUI /\ [][NextUI]_vars

\* ------------------------------------------------------------------------
\* The scraper and the events cache (scraper_utils.py, web_interface.py)
\* ------------------------------------------------------------------------
TicksPerHour == 60 * TicksPerMinute

TicksPerDay == 24 * TicksPerHour

\* datetime.now() of the web interface, in ticks
NowTicks(h) == h * TicksPerHour

\* the text of the date span of a performance: the span is missing, its text
\* matches none of DATE_FORMATS, or it names a day, counted from the day the
\* web interface is started
NoText == [kind |-> "none"]
UnparsedText == [kind |-> "unparsed"]
DateText(d) == [kind |-> "date", day |-> d]

Days == {-1, 0, 1}

DateTexts == {NoText, UnparsedText} \cup {DateText(d) : d \in Days}

\* the text of the time span: missing, or a time of day in minutes after
\* midnight: 10:00 AM, 7:00 PM, 8:30 PM
NoTime == -1

TimeTexts == {NoTime, 10 * 60, 19 * 60, 20 * 60 + 30}

\* a performance element of the page, or none for the id
NoListing == [absent |-> TRUE]

Performances == [date_text : DateTexts, time_text : TimeTexts]

\* fetch_page_html returned None
NoHtml == [kind |-> "no_html"]

\* the pages the site can serve: for every screening a performance or none
Pages == [PageIds -> {NoListing} \cup Performances]

\* parse_date(date_string): midnight of the day a text names, else None
parse_date(date_string) ==
    IF date_string.kind = "date" THEN date_string.day * TicksPerDay ELSE NoDate

\* is_event_passed(event_date) of date_utils: before now minus the buffer
is_event_passed_at(event_date, h) ==
    IF event_date = NoDate THEN FALSE
    ELSE event_date < NowTicks(h) - PASSED_EVENT_BUFFER_DAYS * TicksPerDay

\* a scraper that adds the time of day to the date
parse_performance_with_time(perf, h) ==
    LET event_date ==
            IF perf.date_text = NoText THEN NoDate
            ELSE IF parse_date(perf.date_text) = NoDate \/ perf.time_text = NoTime
            THEN parse_date(perf.date_text)
            ELSE parse_date(perf.date_text) + perf.time_text * TicksPerMinute
    IN IF is_event_passed_at(event_date, h) THEN NoRecord
       ELSE [date |-> event_date, date_text |-> perf.date_text,
             time_text |-> perf.time_text]

\* _parse_performance with skip_passed: the record of a performance, none
\* when its date has passed; 'date' is the isoformat of the parsed date text
parse_performance(perf, h) ==
    LET event_date ==
            IF perf.date_text = NoText THEN NoDate
            ELSE parse_date(perf.date_text)
    IN IF is_event_passed_at(event_date, h) THEN NoRecord
       ELSE [date |-> event_date, date_text |-> perf.date_text,
             time_text |-> perf.time_text]

NoEvents == [id \in ConflictIds |-> NoRecord]

\* parse_events_from_html(html)
parse_events_from_html(html, h) ==
    [id \in ConflictIds |->
        IF id \in DOMAIN html /\ html[id] # NoListing
        THEN parse_performance(html[id], h)
        ELSE NoRecord]

\* fetch_all_events(): no record when the page could not be fetched
fetch_all_events(html, h) ==
    IF html = NoHtml THEN NoEvents ELSE parse_events_from_html(html, h)

CACHE_DURATION_HOURS == 6

\* the cache file: NoFile, Truncated, or the dumped timestamp and events
CacheFile(h, events) == [kind |-> "json", timestamp |-> h, events |-> events]

\* load_events_cache returning None
NoCached == [kind |-> "none"]

\* a cache that is still served when it is exactly CACHE_DURATION_HOURS old
load_events_cache_inclusive(file, h) ==
    IF file.kind # "json" THEN NoCached
    ELSE IF h - file.timestamp <= CACHE_DURATION_HOURS
    THEN [kind |-> "events", events |-> file.events]
    ELSE NoCached

\* load_events_cache(): the events of a cache file younger than
\* CACHE_DURATION_HOURS, else None
load_events_cache(file, h) ==
    IF file.kind # "json" THEN NoCached
    ELSE IF h - file.timestamp < CACHE_DURATION_HOURS
    THEN [kind |-> "events", events |-> file.events]
    ELSE NoCached

\* save_events_cache: open(EVENTS_CACHE_FILE, 'w') then json.dump; any
\* exception is caught
save_events_cache(file, events, h, outcome) ==
    IF outcome = "ok" THEN CacheFile(h, events)
    ELSE IF outcome = "open_error" THEN file
    ELSE Truncated

\* fetch_events_with_cache(): the cached events when there are any, else the
\* scraper's, which are cached when there are any
fetch_events_with_cache(file, h, html, outcome) ==
    LET cached == load_events_cache(file, h) IN
    IF cached # NoCached /\ cached.events # NoEvents
    THEN [events |-> cached.events, file |-> file, scraped |-> FALSE]
    ELSE LET events == fetch_all_events(html, h) IN
         [events |-> events,
          file |-> IF events # NoEvents
                   THEN save_events_cache(file, events, h, outcome)
                   ELSE file,
          scraped |-> TRUE]

\* the clock is followed for MaxHour hours
MaxHour == 7

\* the pages served while the cache is followed: no page, a page without
\* screenings, one screening, two screenings on the same day
CachePages ==
    {NoHtml} \cup
    {p \in Pages :
        /\ p["a"] \in {NoListing, [date_text |-> DateText(0), time_text |-> 19 * 60]}
        /\ p["b"] \in {NoListing, [date_text |-> DateText(0), time_text |-> 20 * 60 + 30]}
        /\ (p["a"] = NoListing => p["b"] = NoListing)}

\* get_events: /api/events, with refresh=true the cache file is removed first
GetEvents(pages) ==
    \E refresh \in BOOLEAN, html \in pages, outcome \in SaveOutcomes :
        \E r \in {fetch_events_with_cache(
                      IF refresh THEN NoFile ELSE events_cache,
                      hour, html, outcome)} :
            /\ request' = IF refresh THEN "events_refresh" ELSE "events"
            /\ events_cache' = r.file
            /\ scraped' = r.scraped
            /\ event_map' = r.events
            /\ UNCHANGED <<monitored_ids, purchased_ids, conflicts, answered>>
            /\ UNCHANGED hour
            /\ UNCHANGED <<mvars, rvars, uvars>>

\* get_conflicts: /api/conflicts, check_conflicts over the events of
\* fetch_events_with_cache and the lists of the configuration
GetConflictsCached(pages) ==
    \E html \in pages, outcome \in SaveOutcomes :
        \E r \in {fetch_events_with_cache(events_cache, hour, html, outcome)} :
            /\ request' = "conflicts"
            /\ events_cache' = r.file
            /\ scraped' = r.scraped
            /\ event_map' = r.events
            /\ conflicts' = check_conflicts(r.events, monitored_ids, purchased_ids)
            /\ answered' = TRUE
            /\ UNCHANGED <<monitored_ids, purchased_ids>>
            /\ UNCHANGED hour
            /\ UNCHANGED <<mvars, rvars, uvars>>

\* an hour passes
HourPasses ==
    /\ hour < MaxHour
    /\ hour' = hour + 1
    /\ UNCHANGED <<events_cache, request, scraped>>
    /\ UNCHANGED <<mvars, cvars, rvars, uvars>>

EventsApi == GetEvents(CachePages)

ConflictsCachedApi == GetConflictsCached(CachePages)

\* the web interface is started: there is no cache file, or one a previous
\* run left, whole or truncated
InitWebCache ==
    /\ state_file = NoFile
    /\ previous_states = load_state(NoFile)
    /\ config = [monitored_events |-> {}, notify_all_available |-> FALSE]
    /\ now = 0
    /\ all_events = <<>>
    /\ sent = <<>>
    /\ stats = NoStats
    /\ writes = 0
    /\ cycle = "init"
    /\ parity = 0
    /\ InitLoop
    /\ InitPage
    /\ event_map = NoEvents
    /\ monitored_ids = <<"a", "b">>
    /\ purchased_ids = <<>>
    /\ conflicts = <<>>
    /\ answered = FALSE
    /\ events_cache \in
           {NoFile, Truncated} \cup
           {CacheFile(0, fetch_all_events(p, 0)) :
                p \in {q \in CachePages : fetch_all_events(q, 0) # NoEvents}}
    /\ hour = 0
    /\ request = "none"
    /\ scraped = FALSE

NextCache ==
    \/ EventsApi
    \/ ConflictsCachedApi
    \/ HourPasses

SpecCache == InitWebCache /\ [][NextCache]_vars

\* the conflicts of one scrape: with no cache file, /api/conflicts is asked
\* once, for any page and any two selection lists
ScrapeConflicts ==
    /\ request = "none"
    /\ GetConflictsCached(Pages)

InitScrape ==
    /\ state_file = NoFile
    /\ previous_states = load_state(NoFile)
    /\ config = [monitored_events |-> {}, notify_all_available |-> FALSE]
    /\ now = 0
    /\ all_events = <<>>
    /\ sent = <<>>
    /\ stats = NoStats
    /\ writes = 0
    /\ cycle = "init"
    /\ parity = 0
    /\ InitLoop
    /\ InitPage
    /\ event_map = NoEvents
    /\ monitored_ids \in SelectionLists
    /\ purchased_ids \in SelectionLists
    /\ conflicts = <<>>
    /\ answered = FALSE
    /\ events_cache = NoFile
    /\ hour \in {0, 1}
    /\ request = "none"
    /\ scraped = FALSE

NextScrape == ScrapeConflicts

SpecScrape == InitScrape /\ [][NextScrape]_vars

\* ------------------------------------------------------------------------
\* Properties of the monitoring cycle
\* ------------------------------------------------------------------------
\* a step that runs monitor() through a non-empty record list
CycleDone == parity' # parity /\ cycle' = "done"

\* a step that runs monitor() and gets no record
CycleEmpty == parity' # parity /\ cycle' \in {"fetch_failed", "no_events"}

\* the stored status of id in a state mapping, None when id was never seen
StoredStatus(states, id) ==
    IF states[id] = NoEntry THEN None ELSE states[id].status

\* the record was selected for monitoring by the configuration cfg
Monitored(r, cfg) == should_monitor_event(r, cfg.monitored_events)

\* the start date is resolvable and strictly earlier than t minus one day
DatePassed(r, t) == r.date # NoDate /\ r.date < t - 1

\* the positions in log of the notify calls for id, and of those with is_new
NotifiedAt(log, id) == {j \in DOMAIN log : log[j].id = id}

NewlyNotifiedAt(log, id) == {j \in NotifiedAt(log, id) : log[j].is_new}

RepeatNotifiedAt(log, id) == {j \in NotifiedAt(log, id) : ~log[j].is_new}

\* C1: in a cycle where a monitored screening is not passed, is observed
\* available and was stored as sold_out, unknown or not at all, exactly one
\* notify call with is_new=True is made for it
C1_NewlyAvailableNotifiesOnce ==
    [][CycleDone =>
        \A i \in DOMAIN all_events' :
            LET r == all_events'[i] IN
            ( /\ Monitored(r, config)
              /\ ~DatePassed(r, now)
              /\ r.status = "available"
              /\ StoredStatus(previous_states, r.id)
                     \in {"sold_out", "unknown", None} )
            => Cardinality(NewlyNotifiedAt(sent', r.id)) = 1]_vars

\* C1 witness: the only screening of the page was observed available, counted
\* as active, and one is_new notification was sent for it
C1_Witness ==
    /\ cycle = "done"
    /\ Len(all_events) = 1
    /\ all_events[1].status = "available"
    /\ stats.available_count = 1
    /\ Len(sent) = 1
    /\ sent[1].id = all_events[1].id
    /\ sent[1].is_new

\* C2: with notify_all_available off, a cycle sends nothing for a screening
\* whose stored status is already available
C2_NoRepeatWhenFlagOff ==
    [][(CycleDone /\ ~config.notify_all_available) =>
        \A id \in EventIds :
            StoredStatus(previous_states, id) = "available"
            => NotifiedAt(sent', id) = {}]_vars

\* C2 witness: a monitored screening observed available, counted active, and
\* no notification in the cycle
C2_Witness ==
    /\ cycle = "done"
    /\ Len(all_events) = 1
    /\ all_events[1].status = "available"
    /\ stats.available_count = 1
    /\ sent = <<>>

\* C3: with notify_all_available on, a cycle that observes a non-passed
\* monitored screening available while it is stored as available makes one
\* notify call for it, with is_new=False
C3_RepeatWhenFlagOn ==
    [][(CycleDone /\ config.notify_all_available) =>
        \A i \in DOMAIN all_events' :
            LET r == all_events'[i] IN
            ( /\ Monitored(r, config)
              /\ ~DatePassed(r, now)
              /\ r.status = "available"
              /\ StoredStatus(previous_states, r.id) = "available" )
            => /\ Cardinality(RepeatNotifiedAt(sent', r.id)) = 1
               /\ NewlyNotifiedAt(sent', r.id) = {}]_vars

\* C3 witness: a repeat notification was sent
C3_Witness ==
    /\ cycle = "done"
    /\ \E j \in DOMAIN sent : ~sent[j].is_new

\* C4: a screening observed sold_out or unknown is never notified, whatever
\* was stored and whatever the flag; its entry takes the observed status
C4_SoldOutOrUnknownSilent ==
    [][CycleDone =>
        \A i \in DOMAIN all_events' :
            LET r == all_events'[i] IN
            r.status \in {"sold_out", "unknown"}
            => /\ NotifiedAt(sent', r.id) = {}
               /\ (Monitored(r, config) /\ ~DatePassed(r, now))
                    => StoredStatus(previous_states', r.id) = r.status]_vars

\* C4 witness: a cycle counted its only screening as sold out, stored it so
\* and sent nothing
C4_Witness ==
    /\ cycle = "done"
    /\ Len(all_events) = 1
    /\ all_events[1].status = "sold_out"
    /\ stats.sold_out_count = 1
    /\ sent = <<>>
    /\ previous_states[all_events[1].id].status = "sold_out"

\* C5: every non-passed monitored screening of a cycle is stored with the
\* observed status and marked_passed false, also when a notification was
\* attempted and no backend delivered it
C5_StateUpdatedRegardless ==
    [][CycleDone =>
        \A i \in DOMAIN all_events' :
            LET r == all_events'[i] IN
            (Monitored(r, config) /\ ~DatePassed(r, now))
            => /\ previous_states'[r.id] # NoEntry
               /\ previous_states'[r.id].status = r.status
               /\ previous_states'[r.id].marked_passed = FALSE]_vars

\* C5 witness: a notification no backend delivered, and the entry is stored
\* as available
C5_Witness ==
    /\ cycle = "done"
    /\ \E j \in DOMAIN sent :
          /\ ~sent[j].result
          /\ previous_states[sent[j].id] # NoEntry
          /\ previous_states[sent[j].id].status = "available"
          /\ ~previous_states[sent[j].id].marked_passed

\* C6: a monitored screening is judged passed exactly when its date is
\* resolvable and strictly earlier than now minus one day; it is then stored
\* as {status: passed, marked_passed: true}, and an entry already marked
\* passed is left as it is
C6_PassedExactlyOnce ==
    [][CycleDone =>
        \A i \in DOMAIN all_events' :
            LET r == all_events'[i] IN
            Monitored(r, config)
            => /\ DatePassed(r, now) <=> previous_states'[r.id] = PassedEntry
               /\ (DatePassed(r, now) /\ previous_states[r.id] = PassedEntry)
                    => previous_states'[r.id] = previous_states[r.id]
               /\ stats'.passed_count + stats'.active_count
                    = Len(monitored_found_of(all_events', config.monitored_events))]_vars

\* C6 witness: the cycle judged its only screening passed and stored it so
C6_Witness ==
    /\ cycle = "done"
    /\ Len(all_events) = 1
    /\ stats.passed_count = 1
    /\ previous_states[all_events[1].id] = PassedEntry

\* C7: a screening judged passed is not notified, whatever its observed
\* status, stored status and the flag, and its status is not compared: it is
\* not counted as available and the stored status stays passed
C7_PassedNeverNotifies ==
    [][CycleDone =>
        \A i \in DOMAIN all_events' :
            LET r == all_events'[i] IN
            (Monitored(r, config) /\ DatePassed(r, now))
            => /\ NotifiedAt(sent', r.id) = {}
               /\ StoredStatus(previous_states', r.id) = "passed"
               /\ stats'.available_count <= Len(all_events') - 1]_vars

\* C7 witness: the only screening is observed available, was judged passed,
\* and nothing was sent
C7_Witness ==
    /\ cycle = "done"
    /\ Len(all_events) = 1
    /\ all_events[1].status = "available"
    /\ stats.passed_count = 1
    /\ stats.available_count = 0
    /\ sent = <<>>

\* C8: a cycle whose source failed or returned no record changes no entry,
\* sends nothing and does not write the state file
C8_NoRecordsNoTransition ==
    [][CycleEmpty =>
        /\ previous_states' = previous_states
        /\ state_file' = state_file
        /\ sent' = <<>>
        /\ writes' = 0]_vars

\* C8 witness: the fetch failed while an entry was stored as available
C8_Witness ==
    /\ cycle = "fetch_failed"
    /\ \E id \in EventIds : StoredStatus(previous_states, id) = "available"

\* ------------------------------------------------------------------------
\* Properties of the state store
\* ------------------------------------------------------------------------
\* a step that starts a new process after at least one cycle
RestartStep == cycle' = "init" /\ cycle # "init"

\* the first cycle of a process, run through a non-empty record list
FirstCycleDone == CycleDone /\ cycle = "init"

\* the file holds what the last completed cycle left in memory (or there is
\* no file and nothing was ever stored)
LastCycleSaved ==
    \/ state_file = JsonFile(previous_states)
    \/ state_file = NoFile /\ previous_states = EmptyStates

\* C9: a restart between cycles reloads the mapping the last completed cycle
\* saved, and with notify_all_available off the first cycle after it sends a
\* newly-available notification for a non-passed monitored screening
\* observed available exactly when that stored status was sold_out, unknown
\* or absent
C9_RestartNeitherDuplicatesNorMisses ==
    [][/\ (RestartStep /\ LastCycleSaved)
            => previous_states' = previous_states
       /\ (FirstCycleDone /\ ~config.notify_all_available)
            => \A i \in DOMAIN all_events' :
                   LET r == all_events'[i] IN
                   ( /\ Monitored(r, config)
                     /\ ~DatePassed(r, now)
                     /\ r.status = "available" )
                   => ( NewlyNotifiedAt(sent', r.id) # {}
                        <=> StoredStatus(previous_states, r.id)
                                \in {"sold_out", "unknown", None} )]_vars

\* C9 witness: a new process has loaded an entry stored as available from
\* the file the last cycle wrote
C9_Witness ==
    /\ cycle = "init"
    /\ state_file = JsonFile(previous_states)
    /\ \E id \in EventIds : StoredStatus(previous_states, id) = "available"

\* ------------------------------------------------------------------------
\* Properties of the conflict detector
\* ------------------------------------------------------------------------
\* the positions in list of the conflicts between a and b, in either order
ConflictsOf(list, a, b) ==
    {k \in DOMAIN list :
        \/ list[k].event1 = a /\ list[k].event2 = b
        \/ list[k].event1 = b /\ list[k].event2 = a}

\* id is selected and its record has a start time that parses
Resolvable(id) ==
    /\ id \in Range(monitored_ids) \cup Range(purchased_ids)
    /\ event_map[id] # NoRecord
    /\ event_map[id].date \in StartTicks

\* C10: two distinct selected ids with resolvable start times have a
\* conflict exactly when their start times are less than 150 minutes apart,
\* in whichever order they are listed, and every conflict emitted for them
\* carries the whole minutes of that distance
C10_ConflictIffWithinDuration ==
    answered =>
        \A a \in ConflictIds, b \in ConflictIds :
            (a # b /\ Resolvable(a) /\ Resolvable(b))
            => LET ticks == AbsDiff(event_map[a].date, event_map[b].date) IN
               /\ ConflictsOf(conflicts, a, b) # {}
                    <=> ticks < 150 * TicksPerMinute
               /\ \A k \in ConflictsOf(conflicts, a, b) :
                    /\ conflicts[k].time_diff_minutes * TicksPerMinute <= ticks
                    /\ ticks < (conflicts[k].time_diff_minutes + 1) * TicksPerMinute

\* C10 witness: the later screening is listed first, the two start a
\* fraction of a minute less than 150 minutes apart, and the conflict says 149
C10_Witness ==
    /\ answered
    /\ monitored_ids = <<"b", "a">>
    /\ event_map["a"] # NoRecord
    /\ event_map["b"] # NoRecord
    /\ event_map["a"].date = 0
    /\ event_map["b"].date = 150 * TicksPerMinute - 1
    /\ \E k \in DOMAIN conflicts : conflicts[k].time_diff_minutes = 149

\* both, one or none of the two ids of a conflict are in purchased_ids
PurchasedOf(c) ==
    {x \in {c.event1, c.event2} : x \in Range(purchased_ids)}

BothPurchased(c) ==
    c.event1 \in Range(purchased_ids) /\ c.event2 \in Range(purchased_ids)

NeitherPurchased(c) ==
    c.event1 \notin Range(purchased_ids) /\ c.event2 \notin Range(purchased_ids)

\* C11: an emitted conflict is critical exactly when both of its ids are
\* purchased, info exactly when neither is, and warning exactly when one is
C11_SeverityByPurchased ==
    answered =>
        \A k \in DOMAIN conflicts :
            LET c == conflicts[k] IN
            /\ c.severity \in {"critical", "warning", "info"}
            /\ c.severity = "critical" <=> BothPurchased(c)
            /\ c.severity = "info" <=> NeitherPurchased(c)
            /\ c.severity = "warning"
                 <=> (~BothPurchased(c) /\ ~NeitherPurchased(c))

\* C11 witness: the answer holds a warning and a critical conflict
C11_Witness ==
    /\ answered
    /\ \E k \in DOMAIN conflicts : conflicts[k].severity = "warning"
    /\ \E k \in DOMAIN conflicts : conflicts[k].severity = "critical"

\* C12: at most one conflict is emitted per unordered pair of screenings,
\* also when an id is in both lists or repeated in one
C12_AtMostOneConflictPerPair ==
    answered =>
        \A a \in ConflictIds, b \in ConflictIds :
            Cardinality(ConflictsOf(conflicts, a, b)) <= 1

\* C13: no emitted conflict has the same screening on both sides
C13_NoSelfConflict ==
    answered =>
        \A k \in DOMAIN conflicts : conflicts[k].event1 # conflicts[k].event2

\* a selected id that cannot be evaluated: no record, no date, or a date
\* that does not parse
Unusable(id) ==
    /\ id \in Range(monitored_ids) \cup Range(purchased_ids)
    /\ \/ event_map[id] = NoRecord
       \/ event_map[id].date \in {NoDate, BadDate}

\* C14: a selected id without a record, without a date or with an unparsable
\* date appears in no conflict, and beside it every pair of usable ids that
\* start less than the duration apart is still reported
C14_BadIdSkippedOthersReported ==
    (answered /\ \E x \in ConflictIds : Unusable(x)) =>
        /\ \A k \in DOMAIN conflicts :
              ~Unusable(conflicts[k].event1) /\ ~Unusable(conflicts[k].event2)
        /\ \A a \in ConflictIds, b \in ConflictIds :
              ( /\ a # b /\ Resolvable(a) /\ Resolvable(b)
                /\ AbsDiff(event_map[a].date, event_map[b].date)
                       < EVENT_DURATION_MINUTES * TicksPerMinute )
              => ConflictsOf(conflicts, a, b) # {}

\* C14 witness: the first selected id has a date that does not parse, and
\* the conflict of the two ids listed after it is reported
C14_Witness ==
    /\ answered
    /\ monitored_ids = <<"a", "b">>
    /\ purchased_ids = <<"c">>
    /\ event_map["a"] # NoRecord
    /\ event_map["a"].date = BadDate
    /\ ConflictsOf(conflicts, "b", "c") # {}

\* an entry of the monitored list is, in lower case, a substring of the id or
\* of the title of the screening
KeyInIdOrTitle(id, monitored) ==
    \E m \in monitored :
        \/ Contains(Lower(m), Lower(id))
        \/ Contains(Lower(m), Lower(TitleOf(id)))

\* the cycle wrote the state entry of id or called notify for it
TrackedOrNotified(id) ==
    \/ previous_states'[id] # previous_states[id]
    \/ NotifiedAt(sent', id) # {}

\* C16 as stated: a cycle writes a state entry or notifies only for a
\* screening whose id is an element of the monitored list
C16_OnlyListedIdsTracked ==
    [][CycleDone =>
        \A id \in EventIds :
            TrackedOrNotified(id) => id \in config.monitored_events]_vars

\* C16 amended: a cycle writes a state entry or notifies only for a screening
\* of which some monitored entry is a case-insensitive substring of the id or
\* of the title
C16_OnlyMatchingTracked ==
    [][CycleDone =>
        \A id \in EventIds :
            TrackedOrNotified(id)
                => KeyInIdOrTitle(id, config.monitored_events)]_vars

\* C16 witness: the page listed both screenings, one was counted as monitored
\* and notified, the other got no state entry
C16_Witness ==
    /\ cycle = "done"
    /\ Len(all_events) = 2
    /\ stats.active_count + stats.passed_count = 1
    /\ Len(sent) = 1
    /\ previous_states[ID_A] # NoEntry
    /\ previous_states[ID_B] = NoEntry

\* C20: in every notify call of a cycle both backends were attempted whatever
\* happened to the other one, nothing was raised, the value returned is true
\* exactly when one backend succeeded, and the cycle went on to store the
\* observed status
C20_NotifyBackendsIndependent ==
    [][CycleDone =>
        \A j \in DOMAIN sent' :
            LET n == sent'[j] IN
            /\ n.pushover \in AllPushoverOutcomes
            /\ n.email \in AllEmailOutcomes
            /\ ~n.raised
            /\ n.result <=> (n.pushover = "ok" \/ n.email = "ok")
            /\ StoredStatus(previous_states', n.id) = "available"]_vars

\* C20 witness: the Pushover request raised, the mail was sent and notify
\* returned true
C20_Witness ==
    /\ cycle = "done"
    /\ Len(sent) = 1
    /\ sent[1].pushover = "exception"
    /\ sent[1].email = "ok"
    /\ sent[1].result

\* a step that is one turn of the loop of run()
LoopTurn == parity' # parity /\ running

\* C17 as stated: the sleep after a cycle is drawn around the check interval
\* the configuration holds when the cycle runs
C17_SleepAroundConfiguredInterval ==
    [][(LoopTurn /\ wait'.kind = "interval") =>
          /\ wait'.seconds >= (interval_config - JITTER_MINUTES) * 60
          /\ wait'.seconds <= (interval_config + JITTER_MINUTES) * 60]_vars

\* C18: run() leaves its loop only by KeyboardInterrupt; a turn in which an
\* exception is raised, by monitor() or by the sleep, stays in the loop and
\* waits 300 seconds; and after such a turn another turn is started unless
\* the loop is interrupted
C18_OnlyInterruptStopsLoop ==
    /\ [][(running /\ ~running') => wait'.kind = "interrupted"]_vars
    /\ [][(LoopTurn /\ (cycle' = "exception" \/ wait'.kind = "retry")) =>
             (running' /\ wait' = RetryWait)]_vars
    /\ \A p \in {0, 1} :
          (running /\ wait.kind = "retry" /\ parity = p)
              ~> (~running \/ parity # p)

\* C18 witness: monitor() raised in the second turn of the loop, which is
\* still running and sleeps 300 seconds
C18_Witness ==
    /\ running
    /\ cycle = "exception"
    /\ wait = RetryWait
    /\ parity = 0

\* C19 as stated: after a cycle whose fetch failed the loop takes the retry
\* sleep
C19_FetchFailureTakesRetryDelay ==
    [][(LoopTurn /\ cycle' = "fetch_failed") => wait' = RetryWait]_vars

\* C19 amended: after a cycle whose fetch failed nothing stored has changed
\* and the loop sleeps as after any other cycle, around
\* self.check_interval_minutes; the 300 second sleep is taken only when that
\* sleep would be negative or monitor() raised
C19_FetchFailureSleepsNormally ==
    [][LoopTurn =>
          /\ cycle' = "fetch_failed" =>
                /\ previous_states' = previous_states
                /\ state_file' = state_file
                /\ sent' = <<>>
                /\ \/ /\ wait'.kind = "interval"
                      /\ wait'.seconds
                            >= (check_interval_minutes - JITTER_MINUTES) * 60
                      /\ wait'.seconds
                            <= (check_interval_minutes + JITTER_MINUTES) * 60
                   \/ /\ wait' = RetryWait
                      /\ check_interval_minutes < JITTER_MINUTES
          /\ wait' = RetryWait =>
                \/ cycle' = "exception"
                \/ check_interval_minutes < JITTER_MINUTES]_vars

\* C19 witness: the fetch failed and the loop sleeps the default interval
C19_Witness ==
    /\ cycle = "fetch_failed"
    /\ wait = [kind |-> "interval", seconds |-> CHECK_INTERVAL_DEFAULT * 60]

\* the ids a toggle added to a list of the page
NewlyIn(after, before) == Range(after) \ Range(before)

WriteFailed ==
    /\ cycle = "done"
    /\ writes = 1
    /\ state_file # JsonFile(previous_states)

\* the records of the next poll that are monitored, not passed and available
AvailableNow(r) ==
    /\ Monitored(r, config)
    /\ ~DatePassed(r, now)
    /\ r.status = "available"

\* C21 as stated: in the cycle after a failed write, with
\* notify_all_available off, a newly-available notification is sent exactly
\* when the status in the state file, read again, is sold_out, unknown or
\* absent
C21_NextCycleUsesPersistedState ==
    [][(CycleDone /\ WriteFailed /\ ~config.notify_all_available) =>
          \A i \in DOMAIN all_events' :
              AvailableNow(all_events'[i]) =>
                  ( NewlyNotifiedAt(sent', all_events'[i].id) # {}
                    <=> StoredStatus(load_state(state_file), all_events'[i].id)
                            \in {"sold_out", "unknown", None} )]_vars

\* C21 amended: in the cycle after a failed write, in the same process, the
\* notification is decided by the status kept in memory, whatever the file
\* holds
C21_NextCycleUsesMemoryState ==
    [][(CycleDone /\ WriteFailed /\ ~config.notify_all_available) =>
          \A i \in DOMAIN all_events' :
              AvailableNow(all_events'[i]) =>
                  ( NewlyNotifiedAt(sent', all_events'[i].id) # {}
                    <=> StoredStatus(previous_states, all_events'[i].id)
                            \in {"sold_out", "unknown", None} )]_vars

\* C21 witness: the screening was observed available and not notified, since
\* memory already held it as available, while the file does not hold that
C21_Witness ==
    /\ cycle = "done"
    /\ Len(all_events) = 1
    /\ all_events[1].status = "available"
    /\ stats.available_count = 1
    /\ sent = <<>>
    /\ StoredStatus(load_state(state_file), all_events[1].id) # "available"

\* C22: a cycle whose write of the state file did not complete leaves a file
\* from which load_state returns what it returned before the cycle
C22_InterruptedWriteKeepsCommitted ==
    [][(CycleDone /\ state_file' # JsonFile(previous_states')) =>
          load_state(state_file') = load_state(state_file)]_vars

\* ------------------------------------------------------------------------
\* Properties of the state mapping
\* ------------------------------------------------------------------------
\* the stored entry of id is marked as passed
MarkedPassed(states, id) ==
    states[id] # NoEntry /\ states[id].marked_passed

\* the poll of the step holds a record of id that the configuration selects
PolledAndMonitored(id) ==
    \E i \in DOMAIN all_events' :
        all_events'[i].id = id /\ Monitored(all_events'[i], config)

\* C23: an entry marked as passed is the same after every later cycle, and
\* the cycle sends no notification for its screening
C23_PassedIsTerminal ==
    [][CycleDone =>
          \A id \in EventIds :
              MarkedPassed(previous_states, id) =>
                  /\ previous_states'[id] = previous_states[id]
                  /\ NotifiedAt(sent', id) = {}]_vars

\* C24: a cycle removes no entry: every id that has an entry before a cycle
\* has one after it, whether its screening was polled, passed, or is no
\* longer monitored
C24_NoEntryRemoved ==
    [][(CycleDone \/ CycleEmpty) =>
          \A id \in EventIds :
              previous_states[id] # NoEntry
                  => previous_states'[id] # NoEntry]_vars

\* C24 witness: the cycle found no monitored screening in a non-empty page,
\* and the entries of a passed screening and of another one are still there
C24_Witness ==
    /\ cycle = "done"
    /\ stats.active_count + stats.passed_count = 0
    /\ MarkedPassed(previous_states, ID_A)
    /\ previous_states[ID_B] # NoEntry

\* C27: a cycle leaves the entry of every id as it was unless the poll holds
\* a record of that id and the configuration selects it
C27_OnlyPolledMonitoredChange ==
    [][(CycleDone \/ CycleEmpty) =>
          \A id \in EventIds :
              ~PolledAndMonitored(id)
                  => previous_states'[id] = previous_states[id]]_vars

\* C27 witness: the page listed the second screening only, the first one,
\* not polled, still has its entry, and the second one got a notification
C27_Witness ==
    /\ cycle = "done"
    /\ Len(all_events) = 1
    /\ all_events[1].id = ID_B
    /\ Len(sent) = 1
    /\ previous_states[ID_A] # NoEntry
    /\ previous_states[ID_A].status = "sold_out"
    /\ previous_states[ID_B] # NoEntry

\* C26 as stated: with notify_all_available off, a newly-available
\* notification is sent only for a screening stored as sold_out or not stored
C26_NewlyAvailableOnlyAfterSoldOutOrUnseen ==
    [][(CycleDone /\ ~config.notify_all_available) =>
          \A id \in EventIds :
              NewlyNotifiedAt(sent', id) # {}
                  => StoredStatus(previous_states, id) \in {"sold_out", None}]_vars

\* C26 amended: with notify_all_available off, a monitored, non-passed
\* screening observed unknown is stored as unknown without any notification,
\* and one observed available gets its newly-available notification exactly
\* when it is stored as sold_out, unknown or not at all
C26_UnknownSilentButRearms ==
    [][(CycleDone /\ ~config.notify_all_available) =>
          \A i \in DOMAIN all_events' :
              LET r == all_events'[i] IN
              (Monitored(r, config) /\ ~DatePassed(r, now)) =>
                  /\ r.status = "unknown" =>
                        /\ NotifiedAt(sent', r.id) = {}
                        /\ StoredStatus(previous_states', r.id) = "unknown"
                  /\ r.status = "available" =>
                        ( NewlyNotifiedAt(sent', r.id) # {}
                          <=> StoredStatus(previous_states, r.id)
                                  \in {"sold_out", "unknown", None} )]_vars

\* C26 witness: the only screening of the page was observed unknown, stored
\* as unknown and not notified
C26_Witness ==
    /\ cycle = "done"
    /\ Len(all_events) = 1
    /\ all_events[1].status = "unknown"
    /\ stats.active_count = 1
    /\ sent = <<>>
    /\ StoredStatus(previous_states, all_events[1].id) = "unknown"

\* C25: a cycle over a non-empty record list calls save_state once, and the
\* file then holds the whole mapping as the loop over the monitored
\* screenings left it; a cycle without records, and a cycle that raised,
\* call it not at all and leave the file as it was
C25_OneFullWritePerCycle ==
    [][parity' # parity =>
          /\ cycle' = "done" =>
                /\ writes' = 1
                /\ state_file' = JsonFile(previous_states')
          /\ cycle' \in {"fetch_failed", "no_events", "exception"} =>
                /\ writes' = 0
                /\ state_file' = state_file
                /\ previous_states' = previous_states]_vars

\* C25 witness: both screenings of the page were monitored and active, and
\* the one write of the cycle left both entries in the file
C25_Witness ==
    /\ cycle = "done"
    /\ Len(all_events) = 2
    /\ stats.active_count = 2
    /\ writes = 1
    /\ state_file = JsonFile(previous_states)
    /\ \A id \in EventIds : previous_states[id] # NoEntry

\* ------------------------------------------------------------------------
\* Properties of the page
\* ------------------------------------------------------------------------
\* a step in which get_conflicts answers a request of the page
ConflictsAnswered == conflict_requests' < conflict_requests

\* a step in which save_config_api handles the last pending request and
\* changes the stored lists
LastSaveStored ==
    /\ Len(save_requests') < Len(save_requests)
    /\ save_requests' = <<>>
    /\ <<monitored_ids', purchased_ids'>> # <<monitored_ids, purchased_ids>>

\* C28: when get_conflicts answers the request of a toggle, the save request
\* of that toggle has been handled (no more saves are pending than conflict
\* requests of later toggles); and the save handled last leaves the lists of
\* the page in the store
C28_ConflictsSeeTheToggle ==
    [][/\ ConflictsAnswered => Len(save_requests) <= conflict_requests'
       /\ LastSaveStored =>
             /\ monitored_ids' = ui_monitored
             /\ purchased_ids' = ui_purchased]_vars

\* ------------------------------------------------------------------------
\* Properties of the scraper and the events cache
\* ------------------------------------------------------------------------
\* m_ids + p_ids, the list check_conflicts pairs up
AllSelected == monitored_ids \o purchased_ids

\* both records carry a date text that names a day, and the same day
SameCalendarDate(e1, e2) ==
    /\ e1.date_text.kind = "date"
    /\ e2.date_text.kind = "date"
    /\ e1.date_text.day = e2.date_text.day

\* the answer lists a conflict of id1 with id2
ConflictReported(id1, id2) ==
    \E k \in DOMAIN conflicts :
        conflicts[k].event1 = id1 /\ conflicts[k].event2 = id2

\* C29: the scraper parses the start of a screening from the date text alone,
\* so /api/conflicts reports two selected screenings that have a scraped
\* record as a conflict if and only if their date texts name the same
\* calendar day, whatever their time texts say, and every conflict it reports
\* has time_diff_minutes = 0.
C29_ConflictIffSameCalendarDate ==
    request = "conflicts" =>
        /\ \A k \in DOMAIN conflicts : conflicts[k].time_diff_minutes = 0
        /\ \A i, j \in DOMAIN AllSelected :
               (/\ i < j
                /\ event_map[AllSelected[i]] # NoRecord
                /\ event_map[AllSelected[j]] # NoRecord)
               => (ConflictReported(AllSelected[i], AllSelected[j])
                     <=> SameCalendarDate(event_map[AllSelected[i]],
                                          event_map[AllSelected[j]]))

\* two monitored screenings of the same day, at 10:00 AM and at 7:00 PM, are
\* reported as one conflict with time_diff_minutes = 0
C29_Witness ==
    /\ request = "conflicts"
    /\ monitored_ids = <<"a", "b">>
    /\ purchased_ids = <<>>
    /\ event_map["a"] # NoRecord
    /\ event_map["b"] # NoRecord
    /\ event_map["a"].date_text = DateText(0)
    /\ event_map["b"].date_text = DateText(0)
    /\ event_map["a"].time_text = 10 * 60
    /\ event_map["b"].time_text = 19 * 60
    /\ Len(conflicts) = 1
    /\ conflicts[1].time_diff_minutes = 0


\* the file is a cache of some events that was written less than
\* CACHE_DURATION_HOURS before hour h
FreshCache(file, h) ==
    /\ file.kind = "json"
    /\ file.events # NoEvents
    /\ h - file.timestamp < CACHE_DURATION_HOURS

\* C30: a request to /api/events or /api/conflicts calls the scraper if and
\* only if there is no cache file with a non-empty events list written less
\* than CACHE_DURATION_HOURS ago; with refresh=true the cache file is removed
\* first, so the scraper is always called; and a scrape that returns no event
\* leaves the cache file as it was (removed, after refresh=true).
C30_ScrapesIffNoFreshCache ==
    [][hour' = hour =>
          /\ request' = "events_refresh" => scraped'
          /\ request' \in {"events", "conflicts"} =>
                 (scraped' <=> ~FreshCache(events_cache, hour))
          /\ (scraped' /\ event_map' = NoEvents) =>
                 events_cache' = IF request' = "events_refresh"
                                 THEN NoFile ELSE events_cache]_vars

\* /api/events was answered from a cache written five hours before
C30_Witness ==
    /\ request = "events"
    /\ ~scraped
    /\ events_cache.kind = "json"
    /\ hour - events_cache.timestamp = CACHE_DURATION_HOURS - 1
    /\ event_map = events_cache.events
    /\ event_map # NoEvents


====
